---------------------------- MODULE Spec2Model ----------------------------
(***************************************************************************)
(* Trading-history fetcher: the paginated fetch loop fetchAllTrades of     *)
(* src/services/TradeFetcher.ts (impl = "manual") and of                   *)
(* src/services/TradeFetcher-sdk.ts (impl = "sdk"), together with the      *)
(* binary log decoder parseLog that both call.  Spec is a run of          *)
(* fetchAllTrades, FairSpec the same run on a fair event loop, ParseSpec   *)
(* parseLog applied to one payload: that of either fetcher and that of the *)
(* re-decode utility src/utils/decode-history.ts.                          *)
(*                                                                         *)
(* Representation.                                                         *)
(*  - A signature is a positive integer; the remote history is the list    *)
(*    1, 2, ..., histLen, newest first.  NoSig (0) is `undefined`.         *)
(*  - A log payload is the byte sequence Buffer.from(log, "base64")        *)
(*    yields (Buffer.from never throws); bytes are 0..255, the byte at     *)
(*    Buffer offset o is element o + 1 of the sequence.                    *)
(*  - Numbers are exact: Number(raw) / 10^d is the rational raw / 10^d,    *)
(*    held as an integer count of decimal units, and toFixed prints that   *)
(*    count.  (A double differs from the rational by a relative 2^-53 at   *)
(*    most, which only a value exactly on a rounding tie could show.)      *)
(*  - Integers are below 2^31; the 8-byte fields decoded have their upper  *)
(*    four bytes 0 (or, for the signed timestamp, the sign bit set).       *)
(*  - A null parse result is the record NoEvent, a null transaction the    *)
(*    record NullTx, an absent (null) block time is NoBlockTime (0, which  *)
(*    `||` treats as null does).                                           *)
(***************************************************************************)
EXTENDS Integers, Sequences, FiniteSets, TLC

(***************************************************************************)
(* Bounds of the model (not program constants).                            *)
(***************************************************************************)
\* short histories have 0 .. MaxShortHist signatures
MaxShortHist == 4
\* long histories have LIMIT .. LIMIT + MaxExtra signatures
MaxExtra == 1
\* number of network calls that may fail in a run over a short history
MaxFailsShort == 3
\* number of network calls that may fail in a run over a long history
MaxFailsLong == 1
\* the shortest histories, of 0 .. MaxStormHist signatures, are also run
\* under a storm of failures: up to MaxFailsStorm failing network calls,
\* enough to use up the retries of a batch
MaxStormHist == 2
MaxFailsStorm == 8

(***************************************************************************)
(* Program constants.                                                      *)
(***************************************************************************)
LIMIT == 20
BATCH_SIZE == 3
DELAY_MS == 2000
MAX_RETRIES_MANUAL == 3
MAX_RETRIES_SDK == 7
BACKOFF_STEP_MANUAL == 10000
BACKOFF_CAP_SDK == 128000
MIN_LENGTH == 16
TRADE_MIN_LENGTH == 40
TS64_MIN_LENGTH == 48
FEE_TAG == 23
TAG_LONG_TAKER == 18
TAG_SHORT_TAKER == 19
TAG_LONG_MAKER == 10
TAG_SHORT_MAKER == 11
TS_MIN == 1577836800
TS_MAX == 1893456000
PRICE_MIN == 1
PRICE_MAX == 5000

NoEvent == [type |-> "NONE"]
NoSig == 0
NoBlockTime == 0
NA == "N/A"

Min(a, b) == IF a <= b THEN a ELSE b

RECURSIVE Pow2(_)
Pow2(n) == IF n = 0 THEN 1 ELSE 2 * Pow2(n - 1)

Last(s) == s[Len(s)]

(***************************************************************************)
(* Buffer readers.                                                         *)
(***************************************************************************)
\* the unsigned little-endian integer held by bytes off .. off+w-1 (Buffer
\* offsets), most significant byte first in the recursion
RECURSIVE ReadUIntLE(_, _, _)
ReadUIntLE(buffer, off, w) ==
    IF w = 0 THEN 0
    ELSE ReadUIntLE(buffer, off + 1, w - 1) * 256 + buffer[off + 1]

\* buffer.readBigUInt64LE(off); the caller guards off + 8 <= length
readBigUInt64LE(buffer, off) == ReadUIntLE(buffer, off, 8)

\* buffer.readUInt32LE(off)
readUInt32LE(buffer, off) == ReadUIntLE(buffer, off, 4)

\* buffer.readBigInt64LE(off): two's complement; a set sign bit gives a
\* negative number, whose exact value no caller uses (only range tests), so
\* it is represented by -1 - (the low 31 bits are not needed)
readBigInt64LE(buffer, off) ==
    IF buffer[off + 8] >= 128 THEN -1 ELSE ReadUIntLE(buffer, off, 8)

\* buffer.readUInt8(off)
readUInt8(buffer, off) == buffer[off + 1]

\* round(a / b) for a >= 0, b > 0, as toFixed rounds the quotient
RoundDiv(a, b) == (2 * a + b) \div (2 * b)

RECURSIVE Pow10(_)
Pow10(n) == IF n = 0 THEN 1 ELSE 10 * Pow10(n - 1)

\* the decimal digits of n, w of them (zeros in front)
RECURSIVE Digits(_, _)
Digits(n, w) == IF w = 0 THEN "" ELSE Digits(n \div 10, w - 1) \o ToString(n % 10)

\* x.toFixed(w) of the number x = units / 10^w, units >= 0
toFixed(units, w) ==
    ToString(units \div Pow10(w)) \o "." \o Digits(units % Pow10(w), w)

(***************************************************************************)
(* parseLog of src/services/TradeFetcher.ts.                               *)
(***************************************************************************)
\* a variant: tag 20 (order confirmation) taken for a fill as well
IsFillTag_WithNewOrder(d) ==
    d \in {TAG_LONG_TAKER, TAG_SHORT_TAKER, TAG_LONG_MAKER, TAG_SHORT_MAKER, 20}

IsFillTag(d) ==
    d \in {TAG_LONG_TAKER, TAG_SHORT_TAKER, TAG_LONG_MAKER, TAG_SHORT_MAKER}

\* 1. Timestamp (from buffer or fallback to blockTime)
ResolveTimestamp(buffer, blockTime) ==
    IF Len(buffer) >= TS64_MIN_LENGTH
    THEN LET ts == readBigInt64LE(buffer, Len(buffer) - 8)
         IN  IF ts > TS_MIN /\ ts < TS_MAX THEN ts ELSE blockTime
    ELSE IF Len(buffer) >= TRADE_MIN_LENGTH
    THEN LET tsRaw == readUInt32LE(buffer, Len(buffer) - 4)
         IN  IF tsRaw > TS_MIN /\ tsRaw < TS_MAX THEN tsRaw ELSE blockTime
    ELSE blockTime

\* floor(r * 10^n / s) for 0 <= r < s, by long division (10 * s must fit)
RECURSIVE RemAfter(_, _, _)
RemAfter(r, s, n) == IF n = 0 THEN r ELSE RemAfter((10 * r) % s, s, n - 1)

RECURSIVE Scaled(_, _, _)
Scaled(r, s, n) ==
    IF n = 0 THEN 0
    ELSE Scaled(r, s, n - 1) * 10 + (10 * RemAfter(r, s, n - 1)) \div s

\* 5. Calculate unit price: the integer part of
\*    unitPrice = (rawQuote / 10^6) / (rawSize / 10^9) = 1000 * rawQuote / rawSize
PriceWhole(rawSize, rawQuote) ==
    1000 * (rawQuote \div rawSize) + Scaled(rawQuote % rawSize, rawSize, 3)

\* what the division leaves after the integer part (0 when unitPrice is an
\* integer)
PriceRest(rawSize, rawQuote) == RemAfter(rawQuote % rawSize, rawSize, 3)

\* 6. Sanity filter: unitPrice < 1 || unitPrice > 5000, unitPrice being 0
\*    when size is 0
PriceRejected(rawSize, rawQuote) ==
    IF rawSize > 0
    THEN LET whole == PriceWhole(rawSize, rawQuote)
             rest == PriceRest(rawSize, rawQuote)
         IN  \/ whole < PRICE_MIN
             \/ whole > PRICE_MAX
             \/ (whole = PRICE_MAX /\ rest > 0)
    ELSE 0 < PRICE_MIN

\* a variant: the quote amount taken for the unit price
\* (unitPrice = Number(rawQuoteAmount) / 1_000_000)
PriceCents_QuoteAsPrice(rawSize, rawQuote) == RoundDiv(rawQuote, 10000)

\* unitPrice rounded to 10^-2 units, as toFixed(2) rounds it
PriceCents(rawSize, rawQuote) ==
    LET rest == PriceRest(rawSize, rawQuote)
    IN  PriceWhole(rawSize, rawQuote) * 100 + Scaled(rest, rawSize, 2)
            + (IF 2 * RemAfter(rest, rawSize, 2) >= rawSize THEN 1 ELSE 0)

\* size rounded to 10^-2 units, as toFixed(2) rounds it
SizeCents(rawSize) == RoundDiv(rawSize, 10000000)

\* 7. Determine trade direction
IsLong(discriminator) ==
    discriminator = TAG_LONG_TAKER \/ discriminator = TAG_LONG_MAKER

\* a variant: const rawFee = buffer.readBigUInt64LE(0)
parseFee_Offset0(buffer, log, blockTime, signature) ==
    [type |-> "FEE",
     instrument |-> "SOL/USDC",
     orderId |-> NA,
     amount |-> toFixed(readBigUInt64LE(buffer, 0), 6),
     signature |-> signature,
     timestamp |-> blockTime,
     originalLog |-> log]

parseFee(buffer, log, blockTime, signature) ==
    [type |-> "FEE",
     instrument |-> "SOL/USDC",
     orderId |-> NA,
     amount |-> toFixed(readBigUInt64LE(buffer, 8), 6),
     signature |-> signature,
     timestamp |-> blockTime,
     originalLog |-> log]

parseTrade(buffer, log, blockTime, signature) ==
    LET discriminator == readUInt8(buffer, 0)
        rawSize == readBigUInt64LE(buffer, 16)
        rawQuoteAmount == readBigUInt64LE(buffer, 24)
    IN  IF PriceRejected(rawSize, rawQuoteAmount) THEN NoEvent
        ELSE [type |-> "TRADE",
              instrument |-> "SOL/USDC",
              orderId |-> ToString(readBigUInt64LE(buffer, 8)),
              amount |-> toFixed(SizeCents(rawSize), 2),
              price |-> toFixed(PriceCents(rawSize, rawQuoteAmount), 2),
              orderType |-> "Market",
              orderSide |-> IF IsLong(discriminator) THEN "Bid" ELSE "Ask",
              role |-> "Taker",
              tradeAction |-> IF IsLong(discriminator) THEN "Buy" ELSE "Sell",
              signature |-> signature,
              timestamp |-> ResolveTimestamp(buffer, blockTime),
              originalLog |-> log]

parseLog(log, blockTime, signature) ==
    LET buffer == log
    IN  IF Len(buffer) < MIN_LENGTH THEN NoEvent
        ELSE IF readUInt8(buffer, 0) = FEE_TAG
        THEN parseFee(buffer, log, blockTime, signature)
        ELSE IF Len(buffer) >= TRADE_MIN_LENGTH /\ IsFillTag(readUInt8(buffer, 0))
        THEN parseTrade(buffer, log, blockTime, signature)
        ELSE NoEvent

(***************************************************************************)
(* parseLog of src/services/TradeFetcher-sdk.ts.  The SDK models           *)
(* (PerpFeesReportModel, PerpFillOrderReportModel) are a library; their    *)
(* fields are read at the offsets docs/SDK-MIGRATION.md gives for them     *)
(* (fees at 8; orderId at 8, perps at 16, crncy at 24), and fromBuffer     *)
(* raises, which parseLog turns into null, when the buffer is shorter than *)
(* the fields read.                                                        *)
(***************************************************************************)
parseFeeSdk(buffer, log, blockTime, signature) ==
    [type |-> "FEE",
     instrument |-> "SOL/USDC",
     orderId |-> NA,
     amount |-> toFixed(readBigUInt64LE(buffer, 8), 6),
     signature |-> signature,
     timestamp |-> blockTime,
     originalLog |-> log]

parseTradeSdk(buffer, log, blockTime, signature) ==
    LET discriminator == readUInt8(buffer, 0)
        perps == readBigUInt64LE(buffer, 16)
        crncy == readBigUInt64LE(buffer, 24)
        orderTypeRaw == readUInt8(buffer, 4)
    IN  IF PriceRejected(perps, crncy) THEN NoEvent
        ELSE [type |-> "TRADE",
              instrument |-> "SOL/USDC",
              orderId |-> ToString(readBigUInt64LE(buffer, 8)),
              amount |-> toFixed(SizeCents(perps), 2),
              price |-> toFixed(PriceCents(perps, crncy), 2),
              orderType |-> IF orderTypeRaw = 1 THEN "Market" ELSE "Limit",
              orderSide |-> IF IsLong(discriminator) THEN "Bid" ELSE "Ask",
              role |-> IF discriminator = TAG_LONG_MAKER
                          \/ discriminator = TAG_SHORT_MAKER
                       THEN "Maker" ELSE "Taker",
              tradeAction |-> IF IsLong(discriminator) THEN "Buy" ELSE "Sell",
              signature |-> signature,
              timestamp |-> blockTime,
              originalLog |-> log]

parseLogSdk(log, blockTime, signature) ==
    LET buffer == log
    IN  IF Len(buffer) < MIN_LENGTH THEN NoEvent
        ELSE IF readUInt8(buffer, 0) = FEE_TAG
        THEN parseFeeSdk(buffer, log, blockTime, signature)
        ELSE IF IsFillTag(readUInt8(buffer, 0))
        THEN IF Len(buffer) < 32 THEN NoEvent
             ELSE parseTradeSdk(buffer, log, blockTime, signature)
        ELSE NoEvent

(***************************************************************************)
(* parseLog of src/utils/decode-history.ts, the re-decode utility.         *)
(***************************************************************************)
\* CASE A: FEE / TRANSFER (Discriminator 0x17)
parseFeeHistory(buffer, blockTime) ==
    [action |-> "FEE",
     side |-> "UNKNOWN",
     size |-> "0",
     price |-> "0",
     fee |-> toFixed(readBigUInt64LE(buffer, 8), 6),
     timestamp |-> blockTime]

\* CASE B: TRADE (Buffer Length >= 40), whatever the discriminator
parseTradeHistory(buffer, blockTime) ==
    LET discriminator == readUInt8(buffer, 0)
        rawSize == readBigUInt64LE(buffer, 16)
        rawQuoteAmount == readBigUInt64LE(buffer, 24)
    IN  [action |-> "TRADE",
         side |-> IF discriminator = TAG_SHORT_TAKER
                     \/ discriminator = TAG_SHORT_MAKER
                  THEN "SHORT"
                  ELSE IF discriminator = TAG_LONG_TAKER
                          \/ discriminator = TAG_LONG_MAKER
                  THEN "LONG"
                  ELSE "UNKNOWN",
         size |-> toFixed(rawSize, 9),
         price |-> IF rawSize > 0
                   THEN toFixed(PriceCents(rawSize, rawQuoteAmount), 2)
                   ELSE "0",
         fee |-> "0",
         timestamp |-> ResolveTimestamp(buffer, blockTime)]

parseLogHistory(log, blockTime) ==
    LET buffer == log
    IN  IF Len(buffer) < MIN_LENGTH THEN NoEvent
        ELSE IF readUInt8(buffer, 0) = FEE_TAG
        THEN parseFeeHistory(buffer, blockTime)
        ELSE IF Len(buffer) >= TRADE_MIN_LENGTH
        THEN parseTradeHistory(buffer, blockTime)
        ELSE NoEvent

(***************************************************************************)
(* The remote ledger: a static history.  Transaction contents are a fixed  *)
(* function of the signature that covers the shapes the fetch loop         *)
(* distinguishes: a null transaction, a transaction without log messages,  *)
(* an absent block time, lines with and without the "Program data: "       *)
(* marker, and payloads that decode to a trade, to a fee, or to nothing.   *)
(***************************************************************************)
RECURSIVE BytesLE(_, _)
BytesLE(n, w) == IF w = 0 THEN <<>> ELSE <<n % 256>> \o BytesLE(n \div 256, w - 1)

Zeros(n) == [j \in 1..n |-> 0]

\* a fill payload of 40 bytes (32-bit timestamp in the last 4 bytes) or of
\* 48 bytes (64-bit timestamp in the last 8 bytes)
FillLog(tag, len, orderType, orderId, rawSize, rawQuote, ts) ==
    <<tag, 0, 0, 0, orderType, 0, 0, 0>>
        \o BytesLE(orderId, 8) \o BytesLE(rawSize, 8) \o BytesLE(rawQuote, 8)
        \o (IF len >= TS64_MIN_LENGTH
            THEN Zeros(len - 40) \o BytesLE(ts, 8)
            ELSE Zeros(len - 36) \o BytesLE(ts, 4))

\* a fee payload: tag 0x17, the raw fee at offset 8
FeeLog(len, rawFee) ==
    <<FEE_TAG, 0, 0, 0, 0, 0, 0, 0>> \o BytesLE(rawFee, 8) \o Zeros(len - 16)

\* a payload of len bytes: the tag, the order type at offset 4, 8-byte
\* little-endian fields at offsets 8, 16 and 24, zeros, and in a payload of
\* 40 bytes or more a timestamp in the last 4 bytes (below 48 bytes) or the
\* last 8 bytes (two's complement)
Payload(in) ==
    LET body == <<in.tag, 0, 0, 0, in.orderType, 0, 0, 0>>
                    \o BytesLE(in.field8, 8) \o BytesLE(in.rawSize, 8)
                    \o BytesLE(in.rawQuote, 8)
    IN  IF in.len <= 32 THEN SubSeq(body, 1, in.len)
        ELSE IF in.len < TRADE_MIN_LENGTH THEN body \o Zeros(in.len - 32)
        ELSE IF in.len < TS64_MIN_LENGTH
        THEN body \o Zeros(in.len - 36) \o BytesLE(in.ts, 4)
        ELSE body \o Zeros(in.len - 40) \o BytesLE(in.ts, 8)

\* what a payload is made of
In(tag, len, orderType, field8, rawSize, rawQuote, ts) ==
    [tag |-> tag, len |-> len, orderType |-> orderType, field8 |-> field8,
     rawSize |-> rawSize, rawQuote |-> rawQuote, ts |-> ts]

NoInput == In(0, 0, 0, 0, 0, 0, 0)

\* parseLog has not been called
NotParsed == [type |-> "NOT PARSED"]

\* fill payloads: every fill tag; lengths around 40 and 48; base amounts 0,
\* 0.02 and 0.1 (SOL); quote amounts that put the unit price below 1, at 1,
\* inside the band, at 5000 and above it; timestamps negative, zero, at and
\* next to both ends of the window, inside and after it
FillTags == {TAG_LONG_TAKER, TAG_SHORT_TAKER, TAG_LONG_MAKER, TAG_SHORT_MAKER}

FillInputs ==
    {in \in
        {In(tag, len, orderType, 6272033, rawSize, rawQuote, ts) :
            tag \in FillTags,
            len \in {32, 39, 40, 44, 47, 48, 56},
            orderType \in {0, 1},
            rawSize \in {0, 20000000, 100000000},
            rawQuote \in {19999, 20000, 100000, 1523600, 99999999, 100000000,
                          100000001, 338461479, 500000000, 500000001},
            ts \in {-1, 0, 1577836800, 1577836801, 1770346835, 1893455999,
                    1893456000, 1900000000}} :
        /\ in.len >= TS64_MIN_LENGTH \/ in.ts >= 0
        /\ in.len >= TRADE_MIN_LENGTH \/ in.ts = 0}

\* fee payloads: lengths below, at and above 16; several raw fees
FeeInputs ==
    {In(FEE_TAG, len, 0, rawFee, 0, 0, 0) :
        len \in {8, 15, 16, 24, 40, 48},
        rawFee \in {0, 25, 3897, 1234567, 2000000000}}

\* payloads with other tags, of every length class, holding what would be
\* a plausible fill or fee
OtherInputs ==
    {In(tag, len, 1, 6272033, 100000000, 338461479, IF len >= 40 THEN 1770346835 ELSE 0) :
        tag \in {0, 9, 12, 17, 20, 22, 24, 99, 255},
        len \in {8, 15, 16, 24, 39, 40, 48, 56}}

Inputs == FillInputs \cup FeeInputs \cup OtherInputs

\* a log line: where the marker "Program data: " stands in it ("start",
\* "inside" as in "Program log: Program data: x", or "none") and the text
\* after the marker
DataLine(log) == [marker |-> "start", data |-> log]
InsideLine(log) == [marker |-> "inside", data |-> log]
OtherLine == [marker |-> "none", data |-> <<>>]

BlockTimeOf(s) == 1700000000 + s

\* the ConfirmedSignatureInfo of signature s
SigInfo(s) ==
    [signature |-> s,
     blockTime |-> IF s % 20 = 13 THEN NoBlockTime ELSE BlockTimeOf(s)]

\* getParsedTransaction resolving to null
NullTx == [isNull |-> TRUE, blockTime |-> NoBlockTime, hasLogs |-> FALSE,
           logMessages |-> <<>>]

\* a transaction with log messages
Tx(blockTime, logMessages) ==
    [isNull |-> FALSE, blockTime |-> blockTime, hasLogs |-> TRUE,
     logMessages |-> logMessages]

\* a transaction whose meta.logMessages is null
TxNoLogs(blockTime) ==
    [isNull |-> FALSE, blockTime |-> blockTime, hasLogs |-> FALSE,
     logMessages |-> <<>>]

\* the ParsedTransactionWithMeta getParsedTransaction resolves s to
TxOf(s) ==
    CASE s % 5 = 1 ->
           Tx(BlockTimeOf(s),
              <<OtherLine,
                DataLine(FillLog(TAG_LONG_TAKER, 48, 1, 6272033 + s, 1000000, 150000, 1770346835)),
                DataLine(FeeLog(24, 3897))>>)
      [] s % 5 = 2 -> NullTx
      [] s % 5 = 3 ->
           Tx(IF s % 10 = 3 THEN NoBlockTime ELSE BlockTimeOf(s),
              <<DataLine(FillLog(TAG_SHORT_MAKER, 40, 0, 6272033 + s, 2000000, 400000, 0))>>)
      [] s % 5 = 4 ->
           Tx(BlockTimeOf(s),
              <<InsideLine(FeeLog(16, 25)),
                DataLine(<<FEE_TAG, 0, 0, 0, 0, 0, 0, 0>>),
                DataLine(FillLog(99, 48, 0, 7, 1000000, 150000, 1770346835)),
                DataLine(FillLog(TAG_SHORT_TAKER, 48, 0, 8, 0, 150000, 1770346835)),
                DataLine(FeeLog(24, 1234567))>>)
      [] OTHER -> TxNoLogs(BlockTimeOf(s))

\* the signatures of the history strictly older than `before`, newest
\* first, at most `limit` of them (getSignaturesForAddress on a static
\* history of n signatures)
getSignaturesForAddress(n, before, limit) ==
    [j \in 1..Min(limit, n - before) |-> SigInfo(before + j)]

\* Math.floor(Date.now() / 1000) at the moments the run may read the clock
Clock == {1790000000, 1790000001}

(***************************************************************************)
(* State.                                                                  *)
(***************************************************************************)
VARIABLES
    impl,           \* "manual": TradeFetcher.ts, "sdk": TradeFetcher-sdk.ts
    histLen,        \* number of signatures of the remote history
    pc,             \* position of fetchAllTrades
    lastSignature,  \* the pagination cursor
    hasMore,
    signatures,     \* the current page
    i,              \* index of the current batch's first signature (from 0)
    retryCount,
    batchSuccess,
    allEvents,
    totalProcessed,
    pending,        \* manual: positions of the batch awaited by Promise.all
    k,              \* sdk: position in batchSigs of the `for (const sig ...)`
    result,         \* the outcome of fetchAllTrades: Running, or what it returned
    \* what an observer of the run sees
    pageReqs,       \* the `before` argument of every page request, in order
    pageResps,      \* how every page request ended, in order
    txReqs,         \* the signature of every getParsedTransaction call, in order
    inflight,       \* getParsedTransaction calls started and not yet settled
    backoffs,       \* the backoff delays slept for the current batch, in order
    processed,      \* signatures whose transaction reached the decode loop
    failedSigs,     \* signatures with a getParsedTransaction call that failed
    failsLeft,      \* network calls that may still fail
    lastError,      \* the error of the latest getParsedTransaction call of the
                    \* current batch that the catch block received, or NoError
    \* the time the run has spent in sleep(), in ms, on a stopwatch that
    \* stops at DELAY_MS
    sleptSinceTx,   \* since the latest getParsedTransaction call was issued
    sleptSincePage, \* since the latest page request was issued
    \* the decoder on its own
    input,          \* what the payload handed to parseLog was made of
    parsedManual,   \* what parseLog of TradeFetcher.ts returned for it
    parsedSdk,      \* what parseLog of TradeFetcher-sdk.ts returned for it
    parsedHistory   \* what parseLog of utils/decode-history.ts returned for it

prog == <<impl, histLen, pc, lastSignature, hasMore, signatures, i, retryCount,
          batchSuccess, allEvents, totalProcessed, pending, k, result>>
obs == <<pageReqs, pageResps, txReqs, inflight, backoffs, processed,
         failedSigs, failsLeft, lastError>>
slept == <<sleptSinceTx, sleptSincePage>>
dec == <<input, parsedManual, parsedSdk, parsedHistory>>
vars == <<prog, obs, slept, dec>>

\* the history lengths explored: short ones (none, less than a batch, a
\* batch and a bit) and long ones (exactly one page, more than one page)
HistLens == (0 .. MaxShortHist) \cup (LIMIT .. LIMIT + MaxExtra)

\* the number of network calls that may fail in a run over n signatures
FailBudget(n) ==
    IF n <= MaxStormHist THEN MaxFailsStorm
    ELSE IF n <= MaxShortHist THEN MaxFailsShort
    ELSE MaxFailsLong

\* the errors a network call may raise: a message containing "429", a
\* message "Too Many Requests" without the number, any other message
ErrorKinds == {"429", "TooManyRequests", "other"}

\* no error caught yet
NoError == "none"

\* the outcome of a call of fetchAllTrades that has not ended
Running == [kind |-> "running", events |-> <<>>]

\* a variant: return []
Returned_Nothing(events) == [kind |-> "returned", events |-> <<>>]

\* return allEvents
Returned(events) == [kind |-> "returned", events |-> events]

FetchInit ==
    /\ impl \in {"manual", "sdk"}
    /\ histLen \in HistLens
    /\ pc = "loop"
    /\ lastSignature = NoSig
    /\ hasMore = TRUE
    /\ signatures = <<>>
    /\ i = 0
    /\ retryCount = 0
    /\ batchSuccess = FALSE
    /\ allEvents = <<>>
    /\ totalProcessed = 0
    /\ pending = {}
    /\ k = 0
    /\ result = Running
    /\ pageReqs = <<>>
    /\ pageResps = <<>>
    /\ txReqs = <<>>
    /\ inflight = 0
    /\ backoffs = <<>>
    /\ processed = {}
    /\ failedSigs = {}
    /\ failsLeft = FailBudget(histLen)
    /\ lastError = NoError
    /\ sleptSinceTx = 0
    /\ sleptSincePage = 0

\* the decoder is not exercised on its own during a fetch
DecoderIdle ==
    /\ input = NoInput
    /\ parsedManual = NotParsed
    /\ parsedSdk = NotParsed
    /\ parsedHistory = NotParsed

Init == FetchInit /\ DecoderIdle

(***************************************************************************)
(* Pieces of fetchAllTrades.                                               *)
(***************************************************************************)
\* a variant: signatures.slice(i, i + BATCH_SIZE - 1)
Batch_OneShort(sigs, from) ==
    SubSeq(sigs, from + 1, Min(from + BATCH_SIZE, Len(sigs)) - 1)

\* signatures.slice(i, i + BATCH_SIZE)
Batch(sigs, from) == SubSeq(sigs, from + 1, Min(from + BATCH_SIZE, Len(sigs)))

\* batch.map(s => s.signature)
BatchSigs(sigs, from) ==
    [j \in 1..Len(Batch(sigs, from)) |-> Batch(sigs, from)[j].signature]

\* a variant: lastSignature = signatures[0].signature
NextCursor_First(sigs) == sigs[1].signature

\* lastSignature = signatures[signatures.length - 1].signature
NextCursor(sigs) == sigs[Len(sigs)].signature

\* a || b
OrElse(a, b) == IF a = NoBlockTime THEN b ELSE a

\* a variant: every error taken for a rate limit (the test of the message
\* dropped)
IsRateLimitManual_Any(kind) == kind \in ErrorKinds

\* err.message.includes("429")
IsRateLimitManual(kind) == kind = "429"

\* error.message?.includes("429") || error.message?.includes("Too Many Requests")
IsRateLimitSdk(kind) == kind = "429" \/ kind = "TooManyRequests"

\* a variant: const waitTime = 10000 * Math.pow(2, retryCount - 1)
BackoffManual_Doubling(count) == BACKOFF_STEP_MANUAL * Pow2(count - 1)

\* const waitTime = 10000 * retryCount, after retryCount++
BackoffManual(count) == BACKOFF_STEP_MANUAL * count

\* Math.min(DELAY_MS * Math.pow(2, retryCount), 128000), after retryCount++
BackoffSdk(count) == Min(DELAY_MS * Pow2(count), BACKOFF_CAP_SDK)

\* while (!batchSuccess && retryCount < MAX_RETRIES)
RetryLoopManual(success, count) == ~success /\ count < MAX_RETRIES_MANUAL

\* while (retryCount < MAX_RETRIES && !batchSuccess)
RetryLoopSdk(success, count) == count < MAX_RETRIES_SDK /\ ~success

\* if (signatures.length === 0) { hasMore = false; break; }
PageIsEmpty(sigs) == Len(sigs) = 0

\* if (!tx || !tx.meta || !tx.meta.logMessages) continue;
NoLogs(tx) == tx.isNull \/ ~tx.hasLogs

\* logLine.match(/Program data: (.+)/): the marker anywhere in the line,
\* followed by at least one character
MatchesManual(line) == line.marker \in {"start", "inside"} /\ Len(line.data) > 0

\* log.startsWith("Program data: ")
MatchesSdk(line) == line.marker = "start"

\* a variant: allEvents.unshift(parsed) within one transaction, the event of
\* a later line standing before the event of an earlier one
RECURSIVE ParseLinesManual_Unshift(_, _, _)
ParseLinesManual_Unshift(lines, blockTime, signature) ==
    IF Len(lines) = 0 THEN <<>>
    ELSE LET line == Head(lines)
             parsed == IF line.marker \in {"start", "inside"} /\ Len(line.data) > 0
                       THEN parseLog(line.data, blockTime, signature)
                       ELSE NoEvent
         IN  ParseLinesManual_Unshift(Tail(lines), blockTime, signature)
                 \o (IF parsed = NoEvent THEN <<>> ELSE <<parsed>>)

\* a variant: the first line that gives no event ends the decoding of the
\* transaction (`break` for `continue`, or a parse error thrown past the loop)
RECURSIVE ParseLinesManual_StopAtSkip(_, _, _)
ParseLinesManual_StopAtSkip(lines, blockTime, signature) ==
    IF Len(lines) = 0 THEN <<>>
    ELSE LET line == Head(lines)
             parsed == IF line.marker \in {"start", "inside"} /\ Len(line.data) > 0
                       THEN parseLog(line.data, blockTime, signature)
                       ELSE NoEvent
         IN  IF parsed = NoEvent THEN <<>>
             ELSE <<parsed>>
                      \o ParseLinesManual_StopAtSkip(Tail(lines), blockTime, signature)

\* the events of the lines of one transaction, in the order of the lines
RECURSIVE ParseLinesManual(_, _, _)
ParseLinesManual(lines, blockTime, signature) ==
    IF Len(lines) = 0 THEN <<>>
    ELSE LET line == Head(lines)
             parsed == IF MatchesManual(line)
                       THEN parseLog(line.data, blockTime, signature)
                       ELSE NoEvent
         IN  (IF parsed = NoEvent THEN <<>> ELSE <<parsed>>)
                 \o ParseLinesManual(Tail(lines), blockTime, signature)

\* D. Parse each transaction: the events of transaction tx of sigInfo
ParseTxManual(tx, sigInfo) ==
    IF NoLogs(tx) THEN <<>>
    ELSE ParseLinesManual(tx.logMessages,
                          OrElse(tx.blockTime, OrElse(sigInfo.blockTime, 0)),
                          sigInfo.signature)

\* the remote is static and decoding is a function of the transaction: the
\* decode of every transaction of the longest history, tabulated
MaxSig == LIMIT + MaxExtra

Ledger == [s \in 1..MaxSig |-> TxOf(s)]

EventsManual ==
    [s \in 1..MaxSig |-> ParseTxManual(TxOf(s), SigInfo(s))]

\* the events of a whole batch, in the order of its signatures
RECURSIVE ParseBatchManual(_)
ParseBatchManual(batch) ==
    IF Len(batch) = 0 THEN <<>>
    ELSE EventsManual[Head(batch).signature]
             \o ParseBatchManual(Tail(batch))

RECURSIVE ParseLinesSdk(_, _, _)
ParseLinesSdk(lines, blockTime, signature) ==
    IF Len(lines) = 0 THEN <<>>
    ELSE LET line == Head(lines)
             event == IF MatchesSdk(line)
                      THEN parseLogSdk(line.data, blockTime, signature)
                      ELSE NoEvent
         IN  (IF event = NoEvent THEN <<>> ELSE <<event>>)
                 \o ParseLinesSdk(Tail(lines), blockTime, signature)

\* the events of transaction tx of signature sig when the clock reads now
ParseTxSdk(tx, sig, now) ==
    IF NoLogs(tx) THEN <<>>
    ELSE ParseLinesSdk(tx.logMessages, OrElse(tx.blockTime, now), sig)

\* the stopwatch reading sofar after a further sleep of ms
Slept(sofar, ms) == Min(sofar + ms, DELAY_MS)

\* await this.sleep(ms) / await new Promise(r => setTimeout(r, ms))
sleep(ms) ==
    /\ sleptSinceTx' = Slept(sleptSinceTx, ms)
    /\ sleptSincePage' = Slept(sleptSincePage, ms)

EventsSdk ==
    [s \in 1..MaxSig |->
        [now \in Clock \cup {NoBlockTime} |-> ParseTxSdk(TxOf(s), s, now)]]

(***************************************************************************)
(* Failure injection: any network call may fail, with any error, while    *)
(* the run's budget of failures lasts.                                     *)
(***************************************************************************)
MayFail == failsLeft > 0

FailsLeftAfter == failsLeft - 1

(***************************************************************************)
(* Actions of fetchAllTrades common to both implementations.               *)
(***************************************************************************)
\* while (hasMore) { ... getSignaturesForAddress(wallet, {before, limit: 20})
RequestPage ==
    /\ pc = "loop" /\ hasMore
    /\ pc' = "page_wait"
    /\ pageReqs' = Append(pageReqs, lastSignature)
    /\ UNCHANGED <<impl, histLen, lastSignature, hasMore, signatures, i,
                   retryCount, batchSuccess, allEvents, totalProcessed,
                   pending, k, result>>
    /\ UNCHANGED <<pageResps, txReqs, inflight, backoffs, processed,
                   failedSigs, failsLeft>>
    /\ sleptSincePage' = 0
    /\ UNCHANGED sleptSinceTx
    /\ UNCHANGED lastError
    /\ UNCHANGED dec

\* a variant: an empty page neither clears hasMore nor leaves the loop
PageResponse_NoStop ==
    /\ pc = "page_wait"
    /\ LET sigs == getSignaturesForAddress(histLen, lastSignature, LIMIT)
       IN  /\ signatures' = sigs
           /\ IF PageIsEmpty(sigs)
              THEN /\ hasMore' = hasMore
                   /\ pc' = "loop"
                   /\ pageResps' = Append(pageResps, "empty")
                   /\ i' = i
              ELSE /\ hasMore' = hasMore
                   /\ pc' = "batch"
                   /\ pageResps' = Append(pageResps, "page")
                   /\ i' = 0
    /\ UNCHANGED <<impl, histLen, lastSignature, retryCount, batchSuccess,
                   allEvents, totalProcessed, pending, k, result>>
    /\ UNCHANGED <<pageReqs, txReqs, inflight, backoffs, processed,
                   failedSigs, failsLeft>>
    /\ UNCHANGED slept
    /\ UNCHANGED lastError
    /\ UNCHANGED dec

\* the page request resolves
PageResponse ==
    /\ pc = "page_wait"
    /\ LET sigs == getSignaturesForAddress(histLen, lastSignature, LIMIT)
       IN  /\ signatures' = sigs
           /\ IF PageIsEmpty(sigs)
              THEN /\ hasMore' = FALSE
                   /\ pc' = "loop"
                   /\ pageResps' = Append(pageResps, "empty")
                   /\ i' = i
              ELSE /\ hasMore' = hasMore
                   /\ pc' = "batch"
                   /\ pageResps' = Append(pageResps, "page")
                   /\ i' = 0
    /\ UNCHANGED <<impl, histLen, lastSignature, retryCount, batchSuccess,
                   allEvents, totalProcessed, pending, k, result>>
    /\ UNCHANGED <<pageReqs, txReqs, inflight, backoffs, processed,
                   failedSigs, failsLeft>>
    /\ UNCHANGED slept
    /\ UNCHANGED lastError
    /\ UNCHANGED dec

\* the page request rejects: the outer catch sets hasMore = false
PageFailure(kind) ==
    /\ pc = "page_wait"
    /\ MayFail
    /\ hasMore' = FALSE
    /\ pc' = "loop"
    /\ pageResps' = Append(pageResps, kind)
    /\ failsLeft' = FailsLeftAfter
    /\ UNCHANGED <<impl, histLen, lastSignature, signatures, i, retryCount,
                   batchSuccess, allEvents, totalProcessed, pending, k, result>>
    /\ UNCHANGED <<pageReqs, txReqs, inflight, backoffs, processed, failedSigs>>
    /\ UNCHANGED slept
    /\ UNCHANGED lastError
    /\ UNCHANGED dec

\* for (let i = 0; i < signatures.length; i += BATCH_SIZE) { retryCount = 0; ...
BatchStart ==
    /\ pc = "batch" /\ i < Len(signatures)
    /\ retryCount' = 0
    /\ batchSuccess' = FALSE
    /\ backoffs' = <<>>
    /\ pc' = "attempt"
    /\ UNCHANGED <<impl, histLen, lastSignature, hasMore, signatures, i,
                   allEvents, totalProcessed, pending, k, result>>
    /\ UNCHANGED <<pageReqs, pageResps, txReqs, inflight, processed,
                   failedSigs, failsLeft>>
    /\ UNCHANGED slept
    /\ lastError' = NoError
    /\ UNCHANGED dec

\* the for loop ends: lastSignature = last signature of the page and, in
\* TradeFetcher.ts only, sleep(DELAY_MS)
PageDone ==
    /\ pc = "batch" /\ ~(i < Len(signatures))
    /\ lastSignature' = NextCursor(signatures)
    /\ pc' = "loop"
    /\ UNCHANGED <<impl, histLen, hasMore, signatures, i, retryCount,
                   batchSuccess, allEvents, totalProcessed, pending, k, result>>
    /\ UNCHANGED obs
    /\ IF impl = "manual" THEN sleep(DELAY_MS) ELSE UNCHANGED slept
    /\ UNCHANGED dec

\* the while loop ends: return allEvents
Return ==
    /\ pc = "loop" /\ ~hasMore
    /\ result' = Returned(allEvents)
    /\ pc' = "done"
    /\ UNCHANGED <<impl, histLen, lastSignature, hasMore, signatures, i,
                   retryCount, batchSuccess, allEvents, totalProcessed,
                   pending, k>>
    /\ UNCHANGED obs
    /\ UNCHANGED slept
    /\ UNCHANGED dec

(***************************************************************************)
(* The batch of src/services/TradeFetcher.ts: Promise.all over one         *)
(* getParsedTransaction call per signature of the batch.                   *)
(***************************************************************************)
\* an attempt starts: every call of the batch is issued at once
AttemptManual ==
    /\ impl = "manual" /\ pc = "attempt"
    /\ RetryLoopManual(batchSuccess, retryCount)
    /\ LET batchSigs == BatchSigs(signatures, i)
       IN  /\ pending' = 1..Len(batchSigs)
           /\ txReqs' = txReqs \o batchSigs
           /\ inflight' = inflight + Len(batchSigs)
    /\ pc' = "await_all"
    /\ UNCHANGED <<impl, histLen, lastSignature, hasMore, signatures, i,
                   retryCount, batchSuccess, allEvents, totalProcessed, k,
                   result>>
    /\ UNCHANGED <<pageReqs, pageResps, backoffs, processed, failedSigs,
                   failsLeft>>
    /\ sleptSinceTx' = 0
    /\ UNCHANGED sleptSincePage
    /\ UNCHANGED lastError
    /\ UNCHANGED dec

\* a variant: every transaction is decoded and its events appended as soon
\* as its own call fulfils (the decoding moved into a `.then` of each call)
ResolveManual_PushEach(j) ==
    /\ impl = "manual" /\ pc = "await_all"
    /\ j \in pending
    /\ pending' = pending \ {j}
    /\ inflight' = inflight - 1
    /\ allEvents' = allEvents \o EventsManual[BatchSigs(signatures, i)[j]]
    /\ IF pending' = {}
       THEN LET batch == Batch(signatures, i)
            IN  /\ batchSuccess' = TRUE
                /\ totalProcessed' = totalProcessed + Len(batch)
                /\ processed' = processed
                                  \cup {batch[x].signature : x \in 1..Len(batch)}
                /\ pc' = "attempt"
       ELSE UNCHANGED <<batchSuccess, totalProcessed, processed, pc>>
    /\ UNCHANGED <<impl, histLen, lastSignature, hasMore, signatures, i,
                   retryCount, k, result>>
    /\ UNCHANGED <<pageReqs, pageResps, txReqs, backoffs, failedSigs, failsLeft>>
    /\ UNCHANGED slept
    /\ UNCHANGED lastError
    /\ UNCHANGED dec

\* one call of the batch fulfils; when it is the last one Promise.all
\* resolves and every transaction of the batch is decoded
ResolveManual(j) ==
    /\ impl = "manual" /\ pc = "await_all"
    /\ j \in pending
    /\ pending' = pending \ {j}
    /\ inflight' = inflight - 1
    /\ IF pending' = {}
       THEN LET batch == Batch(signatures, i)
            IN  /\ allEvents' = allEvents \o ParseBatchManual(batch)
                /\ batchSuccess' = TRUE
                /\ totalProcessed' = totalProcessed + Len(batch)
                /\ processed' = processed
                                  \cup {batch[x].signature : x \in 1..Len(batch)}
                /\ pc' = "attempt"
       ELSE UNCHANGED <<allEvents, batchSuccess, totalProcessed, processed, pc>>
    /\ UNCHANGED <<impl, histLen, lastSignature, hasMore, signatures, i,
                   retryCount, k, result>>
    /\ UNCHANGED <<pageReqs, pageResps, txReqs, backoffs, failedSigs, failsLeft>>
    /\ UNCHANGED slept
    /\ UNCHANGED lastError
    /\ UNCHANGED dec

\* one call of the batch rejects: Promise.all rejects with its error and
\* the catch runs, the other calls of the attempt still being in flight
RejectManual(j, kind) ==
    /\ impl = "manual" /\ pc = "await_all"
    /\ j \in pending
    /\ MayFail
    /\ pending' = {}
    /\ inflight' = inflight - 1
    /\ failedSigs' = failedSigs \cup {BatchSigs(signatures, i)[j]}
    /\ failsLeft' = FailsLeftAfter
    /\ IF IsRateLimitManual(kind)
       THEN /\ retryCount' = retryCount + 1
            /\ backoffs' = Append(backoffs, BackoffManual(retryCount + 1))
            /\ sleep(BackoffManual(retryCount + 1))
            /\ batchSuccess' = batchSuccess
       ELSE /\ batchSuccess' = TRUE
            /\ UNCHANGED <<retryCount, backoffs, slept>>
    /\ pc' = "attempt"
    /\ UNCHANGED <<impl, histLen, lastSignature, hasMore, signatures, i,
                   allEvents, totalProcessed, k, result>>
    /\ UNCHANGED <<pageReqs, pageResps, txReqs, processed>>
    /\ lastError' = kind
    /\ UNCHANGED dec

\* a call of an attempt that was already rejected settles: nobody awaits it
SettleAbandoned ==
    /\ impl = "manual"
    /\ inflight > Cardinality(pending)
    /\ inflight' = inflight - 1
    /\ UNCHANGED prog
    /\ UNCHANGED <<pageReqs, pageResps, txReqs, backoffs, processed,
                   failedSigs, failsLeft>>
    /\ UNCHANGED slept
    /\ UNCHANGED lastError
    /\ UNCHANGED dec

\* a variant: a batch left without success ends the traversal, as
\* `if (!batchSuccess) throw new Error("batch failed")` after the retry loop
\* would through the outer catch
BatchEndManual_AbortOnFailure ==
    /\ impl = "manual" /\ pc = "attempt"
    /\ ~RetryLoopManual(batchSuccess, retryCount)
    /\ IF batchSuccess
       THEN /\ i' = i + BATCH_SIZE
            /\ pc' = "batch"
            /\ hasMore' = hasMore
            /\ IF i + BATCH_SIZE < Len(signatures)
               THEN sleep(DELAY_MS)
               ELSE UNCHANGED slept
       ELSE /\ hasMore' = FALSE
            /\ pc' = "loop"
            /\ UNCHANGED <<i, slept>>
    /\ UNCHANGED <<impl, histLen, lastSignature, signatures, retryCount,
                   batchSuccess, allEvents, totalProcessed, pending, k, result>>
    /\ UNCHANGED obs
    /\ UNCHANGED dec

\* the retry loop ends: sleep(DELAY_MS) unless this was the page's last
\* batch, then i += BATCH_SIZE
BatchEndManual ==
    /\ impl = "manual" /\ pc = "attempt"
    /\ ~RetryLoopManual(batchSuccess, retryCount)
    /\ i' = i + BATCH_SIZE
    /\ pc' = "batch"
    /\ UNCHANGED <<impl, histLen, lastSignature, hasMore, signatures,
                   retryCount, batchSuccess, allEvents, totalProcessed,
                   pending, k, result>>
    /\ UNCHANGED obs
    /\ IF i + BATCH_SIZE < Len(signatures)
       THEN sleep(DELAY_MS)
       ELSE UNCHANGED slept
    /\ UNCHANGED dec

(***************************************************************************)
(* The batch of src/services/TradeFetcher-sdk.ts: one awaited              *)
(* getParsedTransaction call after the other.                              *)
(***************************************************************************)
\* an attempt starts: for (const sig of batchSigs)
AttemptSdk ==
    /\ impl = "sdk" /\ pc = "attempt"
    /\ RetryLoopSdk(batchSuccess, retryCount)
    /\ k' = 1
    /\ pc' = "sdk_next"
    /\ UNCHANGED <<impl, histLen, lastSignature, hasMore, signatures, i,
                   retryCount, batchSuccess, allEvents, totalProcessed,
                   pending, result>>
    /\ UNCHANGED obs
    /\ UNCHANGED slept
    /\ UNCHANGED dec

\* const tx = await getParsedTransaction(sig, ...): the call is issued
RequestSdk ==
    /\ impl = "sdk" /\ pc = "sdk_next"
    /\ k <= Len(BatchSigs(signatures, i))
    /\ txReqs' = Append(txReqs, BatchSigs(signatures, i)[k])
    /\ inflight' = inflight + 1
    /\ pc' = "sdk_wait"
    /\ UNCHANGED <<impl, histLen, lastSignature, hasMore, signatures, i,
                   retryCount, batchSuccess, allEvents, totalProcessed,
                   pending, k, result>>
    /\ UNCHANGED <<pageReqs, pageResps, backoffs, processed, failedSigs,
                   failsLeft>>
    /\ sleptSinceTx' = 0
    /\ UNCHANGED sleptSincePage
    /\ UNCHANGED lastError
    /\ UNCHANGED dec

\* the call fulfils: the transaction is decoded and its events appended
ResolveSdk(now) ==
    /\ impl = "sdk" /\ pc = "sdk_wait"
    /\ LET sig == BatchSigs(signatures, i)[k]
           tx == Ledger[sig]
       IN  /\ now \in (IF ~NoLogs(tx) /\ tx.blockTime = NoBlockTime
                       THEN Clock ELSE {NoBlockTime})
           /\ allEvents' = allEvents \o EventsSdk[sig][now]
           /\ totalProcessed' = IF NoLogs(tx) THEN totalProcessed
                                ELSE totalProcessed + 1
           /\ processed' = processed \cup {sig}
    /\ inflight' = inflight - 1
    /\ k' = k + 1
    /\ pc' = "sdk_next"
    /\ UNCHANGED <<impl, histLen, lastSignature, hasMore, signatures, i,
                   retryCount, batchSuccess, pending, result>>
    /\ UNCHANGED <<pageReqs, pageResps, txReqs, backoffs, failedSigs, failsLeft>>
    /\ UNCHANGED slept
    /\ UNCHANGED lastError
    /\ UNCHANGED dec

\* the call rejects: a rate limit is backed off and the batch retried, any
\* other error is rethrown to the outer catch, which sets hasMore = false
RejectSdk(kind) ==
    /\ impl = "sdk" /\ pc = "sdk_wait"
    /\ MayFail
    /\ inflight' = inflight - 1
    /\ failedSigs' = failedSigs \cup {BatchSigs(signatures, i)[k]}
    /\ failsLeft' = FailsLeftAfter
    /\ IF IsRateLimitSdk(kind)
       THEN /\ retryCount' = retryCount + 1
            /\ backoffs' = Append(backoffs, BackoffSdk(retryCount + 1))
            /\ sleep(BackoffSdk(retryCount + 1))
            /\ pc' = "attempt"
            /\ hasMore' = hasMore
       ELSE /\ hasMore' = FALSE
            /\ pc' = "loop"
            /\ UNCHANGED <<retryCount, backoffs, slept>>
    /\ UNCHANGED <<impl, histLen, lastSignature, signatures, i, batchSuccess,
                   allEvents, totalProcessed, pending, k, result>>
    /\ UNCHANGED <<pageReqs, pageResps, txReqs, processed>>
    /\ lastError' = kind
    /\ UNCHANGED dec

\* the for loop over batchSigs ends: batchSuccess = true
BatchSuccessSdk ==
    /\ impl = "sdk" /\ pc = "sdk_next"
    /\ ~(k <= Len(BatchSigs(signatures, i)))
    /\ batchSuccess' = TRUE
    /\ pc' = "attempt"
    /\ UNCHANGED <<impl, histLen, lastSignature, hasMore, signatures, i,
                   retryCount, allEvents, totalProcessed, pending, k, result>>
    /\ UNCHANGED obs
    /\ UNCHANGED slept
    /\ UNCHANGED dec

\* the retry loop ends: sleep DELAY_MS, then i += BATCH_SIZE
BatchEndSdk ==
    /\ impl = "sdk" /\ pc = "attempt"
    /\ ~RetryLoopSdk(batchSuccess, retryCount)
    /\ i' = i + BATCH_SIZE
    /\ pc' = "batch"
    /\ UNCHANGED <<impl, histLen, lastSignature, hasMore, signatures,
                   retryCount, batchSuccess, allEvents, totalProcessed,
                   pending, k, result>>
    /\ UNCHANGED obs
    /\ sleep(DELAY_MS)
    /\ UNCHANGED dec

(***************************************************************************)
(* The decoder on its own: parseLog applied to one payload.                *)
(***************************************************************************)
\* the block time and the signature parseLog is handed with a payload
InputBlockTime == BlockTimeOf(1)

InputSignature == 1

ParseInit ==
    /\ FetchInit
    /\ impl = "manual"
    /\ histLen = 0
    /\ input \in Inputs
    /\ parsedManual = NotParsed
    /\ parsedSdk = NotParsed
    /\ parsedHistory = NotParsed

\* TradeFetcher.ts: this.parseLog(base64Log, blockTime, signature)
DecodeManual ==
    /\ parsedManual = NotParsed
    /\ parsedManual' = parseLog(Payload(input), InputBlockTime, InputSignature)
    /\ UNCHANGED <<input, parsedSdk, parsedHistory>>
    /\ UNCHANGED <<prog, obs, slept>>

\* TradeFetcher-sdk.ts: this.parseLog(log, blockTime, sig)
DecodeSdk ==
    /\ parsedSdk = NotParsed
    /\ parsedSdk' = parseLogSdk(Payload(input), InputBlockTime, InputSignature)
    /\ UNCHANGED <<input, parsedManual, parsedHistory>>
    /\ UNCHANGED <<prog, obs, slept>>

\* decode-history.ts: parseLog(old.originalLog, old.timestamp || 0)
DecodeHistory ==
    /\ parsedHistory = NotParsed
    /\ parsedHistory' = parseLogHistory(Payload(input), InputBlockTime)
    /\ UNCHANGED <<input, parsedManual, parsedSdk>>
    /\ UNCHANGED <<prog, obs, slept>>

ParseNext == DecodeManual \/ DecodeSdk \/ DecodeHistory

ParseSpec == ParseInit /\ [][ParseNext]_vars

Next ==
    \/ RequestPage
    \/ PageResponse
    \/ \E kind \in ErrorKinds : PageFailure(kind)
    \/ BatchStart
    \/ PageDone
    \/ Return
    \/ AttemptManual
    \/ \E j \in 1..BATCH_SIZE : ResolveManual(j)
    \/ \E j \in 1..BATCH_SIZE, kind \in ErrorKinds : RejectManual(j, kind)
    \/ SettleAbandoned
    \/ BatchEndManual
    \/ AttemptSdk
    \/ RequestSdk
    \/ \E now \in Clock \cup {NoBlockTime} : ResolveSdk(now)
    \/ \E kind \in ErrorKinds : RejectSdk(kind)
    \/ BatchSuccessSdk
    \/ BatchEndSdk

Spec == Init /\ [][Next]_vars

\* the runs followed to their end: over the short histories and over the
\* longest one (two pages and the empty page after them)
FairInit == Init /\ (histLen <= MaxShortHist \/ histLen = LIMIT + MaxExtra)

\* fetchAllTrades is an async function on the event loop: a step that can be
\* taken (a continuation that is ready, a promise settling, a timer firing)
\* is eventually taken
FairSpec == FairInit /\ [][Next]_vars /\ WF_vars(Next)

(***************************************************************************)
(* Properties.                                                             *)
(***************************************************************************)
Done == pc = "done"

NoFailure == failsLeft = FailBudget(histLen)

\* the traversal reached the end of the history
EmptySeen == pageResps # <<>> /\ Last(pageResps) = "empty"

\* the signatures 1 .. n in the order of the history
HistorySigs(n) == [s \in 1..n |-> s]

\* the events parseLog decodes from the transactions of signatures
\* from .. to, in the order of the history
RECURSIVE ExpectedEventsManual(_, _)
ExpectedEventsManual(from, to) ==
    IF from > to THEN <<>>
    ELSE ParseTxManual(TxOf(from), SigInfo(from))
             \o ExpectedEventsManual(from + 1, to)

\* the number of events of list events that carry signature s
EventsOfSig(events, s) == Len(SelectSeq(events, LAMBDA e : e.signature = s))

\* the batch the for loop has just left (pc = "batch", i > 0)
PreviousBatchSigs == BatchSigs(signatures, i - BATCH_SIZE)

\* C1: (TradeFetcher.ts) when the traversal has reached the end of the
\* history, every signature whose own resolution never failed has had its
\* transaction decoded: a failure on one signature does not keep a later
\* signature from being decoded.
C1_FailureIsolation ==
    (impl = "manual" /\ Done /\ EmptySeen)
        => \A s \in 1..histLen : s \in processed \/ s \in failedSigs

\* C2: (TradeFetcher-sdk.ts) the returned list never holds more events of
\* a signature than its transaction decodes to: a retry of a batch appends
\* no event a second time.
C2_NoDuplicateEvents ==
    impl = "sdk"
        => \A s \in 1..histLen :
              EventsOfSig(allEvents, s)
                  <= Len(ParseTxSdk(TxOf(s), s, NoBlockTime))

\* C3: (TradeFetcher.ts) with no network failure, the run requests the
\* transaction of every signature exactly once, newest first, and returns
\* every event parseLog decodes from their "Program data: " lines.
C3_CompleteTraversal ==
    (impl = "manual" /\ Done /\ NoFailure)
        => /\ txReqs = HistorySigs(histLen)
           /\ result = Returned(ExpectedEventsManual(1, histLen))

C3_Witness ==
    /\ impl = "manual" /\ Done /\ NoFailure
    /\ histLen > LIMIT
    /\ Len(txReqs) > LIMIT
    /\ Len(result.events) > BATCH_SIZE

\* C4: once a page request has returned zero signatures, no page request
\* and no transaction resolution is issued any more, no event is appended,
\* and the events accumulated before that response are what is returned.
C4_EmptyPageHalts ==
    [][ /\ EmptySeen' => /\ pageReqs' = pageReqs
                         /\ txReqs' = txReqs
                         /\ allEvents' = allEvents
        /\ (EmptySeen' /\ Done') => result' = Returned(allEvents) ]_vars

C4_Witness ==
    /\ impl = "sdk" /\ EmptySeen /\ Done
    /\ histLen > LIMIT
    /\ Len(result.events) > 0

\* C5: the first page request has no `before` bound, every later one is
\* bounded by the last signature of the page before it, and no signature
\* is the bound of two page requests.
C5_CursorAdvances ==
    /\ pageReqs # <<>> => pageReqs[1] = NoSig
    /\ \A j \in 2..Len(pageReqs) :
          pageReqs[j]
              = Last(getSignaturesForAddress(histLen, pageReqs[j - 1], LIMIT)).signature
    /\ \A a, b \in DOMAIN pageReqs : a < b => pageReqs[a] # pageReqs[b]

C5_Witness == Len(pageReqs) >= 3 /\ Done

\* C6: (TradeFetcher.ts) the k-th backoff delay slept for a rate-limited
\* batch is the first delay times 2^(k-1): the delay doubles on each attempt.
C6_DoublingBackoff ==
    impl = "manual"
        => \A j \in DOMAIN backoffs : backoffs[j] = backoffs[1] * Pow2(j - 1)

\* The schedule TradeFetcher.ts follows: the k-th backoff delay of a batch
\* is 10000 * k ms (10 s, 20 s, 30 s), so the first two delays are d and 2d
\* with d = 10 s; a batch is given up only after three delays, hence a
\* batch rate-limited on attempts 1 and 2 is attempted a third time.
LinearBackoffManual ==
    impl = "manual"
        => /\ \A j \in DOMAIN backoffs : backoffs[j] = BACKOFF_STEP_MANUAL * j
           /\ (pc = "batch" /\ i > 0 /\ ~batchSuccess)
                 => Len(backoffs) = MAX_RETRIES_MANUAL

\* rate-limited on attempts 1 and 2, decoded on attempt 3
RetriedTwiceThenDecoded ==
    /\ impl = "manual" /\ pc = "batch" /\ i > 0
    /\ backoffs = <<BACKOFF_STEP_MANUAL, 2 * BACKOFF_STEP_MANUAL>>
    /\ \A j \in DOMAIN PreviousBatchSigs : PreviousBatchSigs[j] \in processed
    /\ Len(allEvents) > 0

\* C7: (TradeFetcher-sdk.ts) the successive backoff delays of a batch are
\* 2 s, 4 s, 8 s, ..., 128 s: the first is DELAY_MS, each later one double
\* the one before, none above the cap.
C7_DocumentedBackoff ==
    impl = "sdk"
        => \A j \in DOMAIN backoffs :
              backoffs[j] = Min(DELAY_MS * Pow2(j - 1), BACKOFF_CAP_SDK)

\* C8: a rate-limited page request is retried: the run never ends on a
\* page request that was rate-limited once and not requested again.
C8_PageRequestRetried ==
    (Done /\ pageResps # <<>> /\ IsRateLimitSdk(Last(pageResps)))
        => /\ Len(pageResps) >= 2
           /\ IsRateLimitSdk(pageResps[Len(pageResps) - 1])
           /\ pageReqs[Len(pageReqs) - 1] = Last(pageReqs)

\* C9: a run whose first page request failed ends in an outcome that is
\* not the outcome of a successful run over an empty history, and a run
\* whose later page request failed returns the events accumulated so far.
C9_FirstPageFailureFatal ==
    Done => /\ (pageResps[1] \in ErrorKinds) => result # Returned(<<>>)
            /\ (Len(pageResps) > 1 /\ Last(pageResps) \in ErrorKinds)
                  => result = Returned(allEvents)

\* C10: (TradeFetcher.ts) at most one getParsedTransaction call is in
\* flight at any moment.
C10_OneInFlight == impl = "manual" => inflight <= 1

\* C11: (TradeFetcher.ts) getParsedTransaction calls are started one at a
\* time and, but for the first of the run, only after at least DELAY_MS has
\* been slept since the call before; a page request, but for the first, is
\* issued only after at least DELAY_MS has been slept since the one before.
C11_DelayBetweenCalls ==
    [][ impl = "manual"
          => /\ txReqs' # txReqs
                  => /\ Len(txReqs') = Len(txReqs) + 1
                     /\ txReqs = <<>> \/ sleptSinceTx >= DELAY_MS
             /\ pageReqs' # pageReqs
                  => (pageReqs = <<>> \/ sleptSincePage >= DELAY_MS) ]_vars

\* What TradeFetcher.ts keeps of it: between two page requests, and between
\* the calls of two different attempts (of one batch or of two), at least
\* DELAY_MS is slept.
DelayBetweenAttemptsManual ==
    [][ impl = "manual"
          => /\ txReqs' # txReqs
                  => (txReqs = <<>> \/ sleptSinceTx >= DELAY_MS)
             /\ pageReqs' # pageReqs
                  => (pageReqs = <<>> \/ sleptSincePage >= DELAY_MS) ]_vars

\* list a is list b or a beginning of it
IsPrefix(a, b) == Len(a) <= Len(b) /\ SubSeq(b, 1, Len(a)) = a

\* the position, among the log lines of its transaction, of the line event
\* e was decoded from
LineOf(e) ==
    CHOOSE n \in DOMAIN Ledger[e.signature].logMessages :
        Ledger[e.signature].logMessages[n].data = e.originalLog

\* the events stand in the order of the history's signatures (pages in
\* order, and within a page the order the remote gave) and, within one
\* transaction, in the order of its log lines
ComesBefore(e, f) ==
    \/ e.signature < f.signature
    \/ e.signature = f.signature /\ LineOf(e) < LineOf(f)

\* (of every two events the earlier one comes before the later one: so it
\* is when each event comes before the next)
InDiscoveryOrder(events) ==
    \A a \in 1..(Len(events) - 1) : ComesBefore(events[a], events[a + 1])

\* C12: (TradeFetcher.ts) the event list is in discovery order at every
\* moment, an event once appended stays where and what it is, and the list
\* returned is that list.
C12_DiscoveryOrder ==
    [][ impl = "manual"
          => /\ IsPrefix(allEvents, allEvents')
             /\ InDiscoveryOrder(allEvents')
             /\ Done' => result' = Returned(allEvents') ]_vars

\* returned: events of both pages, two of them from one transaction
C12_Witness ==
    /\ impl = "manual" /\ Done
    /\ \E a, b \in DOMAIN result.events :
          /\ a < b
          /\ result.events[a].signature = result.events[b].signature
    /\ \E a, b \in DOMAIN result.events :
          /\ result.events[a].signature <= LIMIT
          /\ result.events[b].signature > LIMIT

\* C13: fetchAllTrades eventually returns, whatever calls fail, and what it
\* returns is the whole list of events decoded during the run.
C13_AlwaysCompletes ==
    <>[](Done /\ result.kind = "returned" /\ result.events = allEvents)

\* returned after a batch used up its retries, with events decoded from
\* another batch or attempt
C13_Witness ==
    /\ Done
    /\ ~batchSuccess
    /\ Len(backoffs) = (IF impl = "manual" THEN MAX_RETRIES_MANUAL ELSE MAX_RETRIES_SDK)
    /\ failedSigs # {}
    /\ Len(result.events) > 0

(***************************************************************************)
(* Properties of the decoder (under ParseSpec).                            *)
(***************************************************************************)
\* parseLog of TradeFetcher.ts has returned
DecodedManual == parsedManual # NotParsed

\* parseLog of TradeFetcher-sdk.ts has returned
DecodedSdk == parsedSdk # NotParsed

IsFeeInput == input.tag = FEE_TAG /\ input.len >= MIN_LENGTH

IsFillInput == input.tag \in FillTags /\ input.len >= TRADE_MIN_LENGTH

\* raw / 1,000,000 to 6 decimal places, for the raw fees of FeeInputs
FeeText ==
    [raw \in {0, 25, 3897, 1234567, 2000000000} |->
        CASE raw = 0 -> "0.000000"
          [] raw = 25 -> "0.000025"
          [] raw = 3897 -> "0.003897"
          [] raw = 1234567 -> "1.234567"
          [] raw = 2000000000 -> "2000.000000"]

SizeText == [rawSize \in {20000000, 100000000} |->
                IF rawSize = 20000000 THEN "0.02" ELSE "0.10"]

\* (rawQuote / 10^6) / (rawSize / 10^9) to 2 decimal places, as IEEE
\* double arithmetic gives it, for the fills of FillInputs
PriceText ==
    [rawSize \in {20000000, 100000000} |->
        IF rawSize = 20000000
        THEN [rawQuote \in {20000, 100000, 1523600, 99999999, 100000000} |->
                CASE rawQuote = 20000 -> "1.00"
                  [] rawQuote = 100000 -> "5.00"
                  [] rawQuote = 1523600 -> "76.18"
                  [] rawQuote = 99999999 -> "5000.00"
                  [] rawQuote = 100000000 -> "5000.00"]
        ELSE [rawQuote \in {100000, 1523600, 99999999, 100000000, 100000001,
                            338461479, 500000000} |->
                CASE rawQuote = 100000 -> "1.00"
                  [] rawQuote = 1523600 -> "15.24"
                  [] rawQuote = 99999999 -> "1000.00"
                  [] rawQuote = 100000000 -> "1000.00"
                  [] rawQuote = 100000001 -> "1000.00"
                  [] rawQuote = 338461479 -> "3384.61"
                  [] rawQuote = 500000000 -> "5000.00"]]

StrictlyInBand(in) ==
    /\ in.rawSize > 0
    /\ in.rawQuote > PRICE_MIN * (in.rawSize \div 1000)
    /\ in.rawQuote < (PRICE_MAX \div 1000) * in.rawSize

\* the unit price is between 1 and 5000, the ends included
InBand(in) ==
    /\ in.rawSize > 0
    /\ in.rawQuote >= PRICE_MIN * ((in.rawSize + 999) \div 1000)
    /\ in.rawQuote <= (PRICE_MAX \div 1000) * in.rawSize

\* C16: in both decoders a fill is emitted if and only if its unit price p
\* satisfies 1 < p < 5000: a unit price of exactly 1 or exactly 5000 is
\* rejected.
C16_ExclusiveBand ==
    /\ (DecodedManual /\ IsFillInput)
          => (parsedManual # NoEvent <=> StrictlyInBand(input))
    /\ (DecodedSdk /\ IsFillInput)
          => (parsedSdk # NoEvent <=> StrictlyInBand(input))

\* What both decoders do: a fill is emitted if and only if 1 <= p <= 5000.
InclusiveBand ==
    /\ (DecodedManual /\ IsFillInput)
          => (parsedManual # NoEvent <=> InBand(input))
    /\ (DecodedSdk /\ IsFillInput)
          => (parsedSdk # NoEvent <=> InBand(input))

\* the calendar years 2020 through 2030: from 2020-01-01T00:00:00Z (TS_MIN)
\* to the last second of 2030, 365 days after 2030-01-01T00:00:00Z (TS_MAX)
InYears2020To2030(ts) == ts >= TS_MIN /\ ts < TS_MAX + 365 * 86400

\* C17: (TradeFetcher.ts) an emitted fill carries the timestamp embedded
\* in the payload (signed 64-bit in the last 8 bytes from 48 bytes on,
\* unsigned 32-bit in the last 4 bytes below) if that falls in the calendar
\* years 2020 through 2030, and the block time otherwise.
C17_TimestampResolution ==
    (DecodedManual /\ IsFillInput /\ parsedManual # NoEvent)
        => parsedManual.timestamp
             = (IF InYears2020To2030(input.ts) THEN input.ts ELSE InputBlockTime)

\* What TradeFetcher.ts does: the embedded timestamp is taken if it is
\* strictly between 2020-01-01T00:00:00Z and 2030-01-01T00:00:00Z.
TimestampWindowManual ==
    (DecodedManual /\ IsFillInput /\ parsedManual # NoEvent)
        => parsedManual.timestamp
             = (IF input.ts > TS_MIN /\ input.ts < TS_MAX
                THEN input.ts ELSE InputBlockTime)

\* side, action and role as the tag alone gives them
SideOfTag(tag) ==
    IF tag \in {TAG_LONG_TAKER, TAG_LONG_MAKER} THEN "Bid" ELSE "Ask"

ActionOfTag(tag) ==
    IF tag \in {TAG_LONG_TAKER, TAG_LONG_MAKER} THEN "Buy" ELSE "Sell"

RoleOfTag(tag) ==
    IF tag \in {TAG_LONG_MAKER, TAG_SHORT_MAKER} THEN "Maker" ELSE "Taker"

\* C18: in both decoders an emitted fill has the side, the trade action
\* and the role its tag gives: 0x12 long taker, 0x13 short taker, 0x0A
\* long maker, 0x0B short maker, Buy for long and Sell for short.
C18_SideAndRole ==
    /\ (DecodedManual /\ IsFillInput /\ parsedManual # NoEvent)
          => /\ parsedManual.orderSide = SideOfTag(input.tag)
             /\ parsedManual.tradeAction = ActionOfTag(input.tag)
             /\ parsedManual.role = RoleOfTag(input.tag)
    /\ (DecodedSdk /\ IsFillInput /\ parsedSdk # NoEvent)
          => /\ parsedSdk.orderSide = SideOfTag(input.tag)
             /\ parsedSdk.tradeAction = ActionOfTag(input.tag)
             /\ parsedSdk.role = RoleOfTag(input.tag)

\* What holds of both decoders: side and action follow the tag; so does the
\* role in TradeFetcher-sdk.ts, while TradeFetcher.ts always says Taker.
SideAndRoleAsCoded ==
    /\ (DecodedManual /\ IsFillInput /\ parsedManual # NoEvent)
          => /\ parsedManual.orderSide = SideOfTag(input.tag)
             /\ parsedManual.tradeAction = ActionOfTag(input.tag)
             /\ parsedManual.role = "Taker"
    /\ (DecodedSdk /\ IsFillInput /\ parsedSdk # NoEvent)
          => /\ parsedSdk.orderSide = SideOfTag(input.tag)
             /\ parsedSdk.tradeAction = ActionOfTag(input.tag)
             /\ parsedSdk.role = RoleOfTag(input.tag)

\* Example A: 48 bytes, tag 0x12, order id 6272033, raw base amount
\* 100000000, raw quote amount 338461479, 64-bit timestamp 1770346835
IsExampleA ==
    /\ input.tag = TAG_LONG_TAKER /\ input.len = 48
    /\ input.field8 = 6272033
    /\ input.rawSize = 100000000 /\ input.rawQuote = 338461479
    /\ input.ts = 1770346835

\* C19: (TradeFetcher.ts) Example A decodes to a long fill with base
\* amount 0.1 (printed "0.10"), unit price 338.461479 (printed "338.46")
\* and timestamp 1770346835.
C19_ExampleA ==
    (DecodedManual /\ IsExampleA)
        => /\ parsedManual # NoEvent
           /\ parsedManual.orderSide = "Bid"
           /\ parsedManual.tradeAction = "Buy"
           /\ parsedManual.orderId = "6272033"
           /\ parsedManual.amount = "0.10"
           /\ parsedManual.price = "338.46"
           /\ parsedManual.timestamp = 1770346835

\* What TradeFetcher.ts decodes Example A to: 338.461479 is the quote
\* amount; the unit price is 338.461479 / 0.1 = 3384.61479.
ExampleAAsCoded ==
    (DecodedManual /\ IsExampleA)
        => /\ parsedManual # NoEvent
           /\ parsedManual.orderSide = "Bid"
           /\ parsedManual.tradeAction = "Buy"
           /\ parsedManual.orderId = "6272033"
           /\ parsedManual.amount = "0.10"
           /\ parsedManual.price = "3384.61"
           /\ parsedManual.timestamp = 1770346835

RECURSIVE RunSdk(_, _)
RunSdk(n, now) ==
    IF n = 0 THEN <<>> ELSE RunSdk(n - 1, now) \o EventsSdk[n][now]

RerunIdenticalButTimestamp ==
    (impl = "sdk" /\ Done /\ NoFailure)
        => \A now \in Clock :
             /\ Len(result.events) = Len(RunSdk(histLen, now))
             /\ \A x \in 1..Len(result.events) :
                  [result.events[x] EXCEPT !.timestamp = 0]
                      = [RunSdk(histLen, now)[x] EXCEPT !.timestamp = 0]

\* no page request of the run failed
NoPageFailure == \A x \in 1..Len(pageResps) : pageResps[x] \in {"page", "empty"}

\* a getParsedTransaction call was issued for signature s
Requested(s) == \E x \in 1..Len(txReqs) : txReqs[x] = s

\* C22: (TradeFetcher-sdk.ts) a failure of a transaction resolution does not
\* end the run, a failure that is no rate limit included: as long as no
\* page request fails, the run goes on with the remaining batches of the
\* page and with the later pages, that is, it requests every signature of
\* the history and reaches the empty page.
C22_NonTransientSkipped ==
    (impl = "sdk" /\ Done /\ NoPageFailure)
        => /\ EmptySeen
           /\ \A s \in 1..histLen : Requested(s)

\* what the code does on such a failure: it is rethrown to the outer catch,
\* which ends the traversal
NonTransientEndsRunSdk ==
    [][(impl = "sdk" /\ pc = "sdk_wait" /\ failsLeft' < failsLeft
            /\ ~IsRateLimitSdk(lastError'))
          => (~hasMore' /\ pc' = "loop" /\ lastSignature' = lastSignature)]_vars

\* the retries of the current batch are used up: the third attempt was rate
\* limited as well and the retry loop is about to be left without success
Exhausted ==
    /\ impl = "manual" /\ pc = "attempt"
    /\ ~batchSuccess /\ retryCount = MAX_RETRIES_MANUAL

\* the run is still going and has requested the page after the current one:
\* every signature of the current page was requested, the cursor stands on
\* its last signature and the latest page request carries that cursor
PageLeftBehind ==
    IF pc = "page_wait" /\ signatures # <<>>
    THEN /\ result = Running
         /\ lastSignature = NextCursor(signatures)
         /\ Last(pageReqs) = NextCursor(signatures)
         /\ \A x \in 1..Len(signatures) : Requested(signatures[x].signature)
    ELSE FALSE

\* C23: (TradeFetcher.ts) a batch whose retries are used up does not end the
\* run: fetchAllTrades goes on (it has not returned or thrown) through the
\* remaining batches of the page, every signature of the page is requested,
\* the cursor is moved to the page's last signature and the next page is
\* requested with it.
C23_ExhaustionNotAbort == Exhausted ~> PageLeftBehind

\* three 429s used up the retries of the first batch of a page of more than
\* one batch, and the for loop has moved on to the second batch
C23_Witness ==
    /\ impl = "manual" /\ pc = "batch"
    /\ i = BATCH_SIZE /\ i < Len(signatures)
    /\ retryCount = MAX_RETRIES_MANUAL /\ ~batchSuccess
    /\ lastError = "429"
    /\ backoffs = <<BackoffManual(1), BackoffManual(2), BackoffManual(3)>>
    /\ processed = {}

\* the number of getParsedTransaction calls issued for signature s
Attempts(s) == Len(SelectSeq(txReqs, LAMBDA t : t = s))

\* C24: (TradeFetcher-sdk.ts) a backoff delay that has been slept is
\* followed by another attempt of the batch, up to the seventh retry: when
\* the catch block has slept its delay (the batch not having succeeded), the
\* retry loop goes round again.
C24_BackoffThenRetry ==
    (impl = "sdk" /\ pc = "attempt" /\ ~batchSuccess /\ backoffs # <<>>)
        => RetryLoopSdk(batchSuccess, retryCount)

\* what the code does with a batch that is rate limited on every attempt:
\* seven attempts in all (the initial one and six retries) and seven delays,
\* the last of them, of 128 s, slept before the batch is given up
SevenAttemptsSdk ==
    (impl = "sdk" /\ pc = "attempt" /\ ~batchSuccess
         /\ retryCount = MAX_RETRIES_SDK)
        => /\ Attempts(BatchSigs(signatures, i)[1]) = MAX_RETRIES_SDK
           /\ Len(backoffs) = MAX_RETRIES_SDK
           /\ Last(backoffs) = BACKOFF_CAP_SDK
           /\ ~RetryLoopSdk(batchSuccess, retryCount)

\* C25: (TradeFetcher.ts) an error whose message does not contain "429" is
\* not retried: the step in which the catch block receives it sleeps no
\* backoff delay and counts no retry, and from then on no further attempt of
\* that batch is started (no getParsedTransaction call is issued until the
\* for loop has moved on).
C25_NonTransientNoRetry ==
    [][impl = "manual"
         => /\ (pc = "await_all" /\ failsLeft' < failsLeft /\ lastError' # "429")
                  => /\ backoffs' = backoffs
                     /\ retryCount' = retryCount
                     /\ UNCHANGED slept
                     /\ pc' = "attempt"
            /\ (pc = "attempt" /\ lastError \notin {NoError, "429"})
                  => /\ txReqs' = txReqs
                     /\ pc' \in {"attempt", "batch"}]_vars

\* the first batch failed with an error that is no 429 on its first
\* attempt, and the for loop has moved on: one call per signature, no delay
C25_Witness ==
    /\ impl = "manual" /\ pc = "batch" /\ i = BATCH_SIZE
    /\ lastError = "other"
    /\ backoffs = <<>> /\ retryCount = 0
    /\ Len(txReqs) = Len(PreviousBatchSigs)
    /\ processed = {}

\* what parseLog of TradeFetcher.ts returns for every log line of every
\* transaction of the ledger, taken on its own: NoEvent for a line without
\* the marker and for a payload that is skipped
LineEvents ==
    [s \in 1..MaxSig |->
        [x \in 1..Len(Ledger[s].logMessages) |->
            LET line == Ledger[s].logMessages[x]
            IN  IF line.marker \in {"start", "inside"} /\ Len(line.data) > 0
                THEN parseLog(line.data,
                              OrElse(Ledger[s].blockTime,
                                     OrElse(SigInfo(s).blockTime, 0)),
                              s)
                ELSE NoEvent]]

\* event e stands in the list events
Appended(events, e) == \E y \in 1..Len(events) : events[y] = e

\* C26: (TradeFetcher.ts) parseLog gives an event or a skip for every line
\* and never an exception that would reach the batch: once the transactions
\* of a batch have been decoded, every line that decodes to an event on its
\* own has its event appended, whatever lines of the same transaction were
\* skipped before it; what is appended is a TRADE or FEE event, and none
\* stems from a payload shorter than 16 bytes.
C26_SkipKeepsSiblings ==
    impl = "manual"
        => /\ \A s \in processed :
                \A x \in DOMAIN LineEvents[s] :
                    LineEvents[s][x] # NoEvent
                        => Appended(allEvents, LineEvents[s][x])
           /\ \A y \in 1..Len(allEvents) :
                /\ allEvents[y].type \in {"TRADE", "FEE"}
                /\ Len(allEvents[y].originalLog) >= MIN_LENGTH

\* a transaction of five lines was decoded: an event, then a payload of 8
\* bytes, an unknown tag and a fill of size 0, all three skipped, and last a
\* fee, whose event is appended
C26_Witness ==
    /\ impl = "manual"
    /\ 4 \in processed
    /\ Len(Ledger[4].logMessages) = 5
    /\ Len(Ledger[4].logMessages[2].data) < MIN_LENGTH
    /\ LineEvents[4][2] = NoEvent
    /\ LineEvents[4][3] = NoEvent
    /\ LineEvents[4][4] = NoEvent
    /\ LineEvents[4][5] # NoEvent
    /\ Last(allEvents) = LineEvents[4][5]

\* the decoder on its own: for every payload parseLog of TradeFetcher.ts
\* returns a TRADE event, a FEE event or null (every read it makes lies
\* within the buffer, so its catch block is never entered), and null for a
\* payload shorter than 16 bytes whatever its tag
EventOrSkipManual ==
    DecodedManual
        => /\ parsedManual.type \in {"TRADE", "FEE", "NONE"}
           /\ input.len < MIN_LENGTH => parsedManual = NoEvent
           /\ parsedManual # NoEvent => parsedManual.originalLog = Payload(input)

\* what parseLog of TradeFetcher.ts returns for the payload made of in
OutcomeOf(in) == parseLog(Payload(in), InputBlockTime, InputSignature)

\* a payload that fails to parse (15 bytes), one with an unrecognized
\* discriminator, a fill with base amount 0, a fill priced above the band
TooShortInput == In(FEE_TAG, 15, 0, 3897, 0, 0, 0)

UnknownTagInput == In(99, 48, 1, 6272033, 100000000, 338461479, 1770346835)

ZeroBaseInput == In(TAG_LONG_TAKER, 48, 1, 6272033, 0, 1523600, 1770346835)

BadPriceInput ==
    In(TAG_LONG_TAKER, 48, 1, 6272033, 100000000, 500000001, 1770346835)

\* C27: (TradeFetcher.ts) the result of parseLog tells why a payload was
\* skipped: for a fill rejected for its values (base amount 0, unit price
\* outside the band) it differs from the result for a payload too short to
\* parse and from the result for an unrecognized discriminator, and for a
\* base amount of 0 it differs from the result for an implausible price.
C27_SkipReasonsDistinct ==
    (DecodedManual /\ IsFillInput)
        => /\ (input.rawSize = 0 \/ ~InBand(input))
                 => /\ parsedManual # OutcomeOf(TooShortInput)
                    /\ parsedManual # OutcomeOf(UnknownTagInput)
           /\ (input.rawSize = 0)
                 => parsedManual # OutcomeOf(BadPriceInput)

\* what the code does: every skip, whatever its reason, is the same null
AllSkipsAlike ==
    DecodedManual
        => /\ OutcomeOf(TooShortInput) = NoEvent
           /\ OutcomeOf(UnknownTagInput) = NoEvent
           /\ OutcomeOf(ZeroBaseInput) = NoEvent
           /\ OutcomeOf(BadPriceInput) = NoEvent
           /\ (IsFillInput /\ (input.rawSize = 0 \/ ~InBand(input)))
                 => parsedManual = NoEvent

\* the current batch has not succeeded: an attempt of it is under way or
\* was rejected, or the retry loop was left after a failure (an error that
\* is no 429, or the retries used up)
BatchNotSucceeded ==
    \/ pc = "await_all"
    \/ pc = "attempt" /\ ~batchSuccess
    \/ pc = "attempt" /\ lastError \notin {NoError, "429"}

\* C28: (TradeFetcher.ts) a signature contributes its events in one piece
\* and at most once, whatever calls fail and are retried; the signatures of
\* a batch that has not succeeded (an attempt still awaited, rejected, or
\* given up) contribute no event, and neither does any signature whose
\* batch was never decoded.
C28_AppendAfterBatchSuccess ==
    impl = "manual"
        => /\ \A s \in 1..histLen :
                EventsOfSig(allEvents, s) =
                    (IF s \in processed THEN Len(EventsManual[s]) ELSE 0)
           /\ BatchNotSucceeded
                 => \A x \in 1..Len(BatchSigs(signatures, i)) :
                       /\ BatchSigs(signatures, i)[x] \notin processed
                       /\ EventsOfSig(allEvents, BatchSigs(signatures, i)[x]) = 0

\* a batch of three was rate limited, retried and then decoded: the run has
\* ended and holds the events of each of its signatures once
C28_Witness ==
    /\ impl = "manual" /\ Done
    /\ histLen = BATCH_SIZE
    /\ lastError = "429" /\ batchSuccess /\ retryCount > 0
    /\ processed = 1..BATCH_SIZE
    /\ result.events = ExpectedEventsManual(1, BATCH_SIZE)
    /\ Len(result.events) > 0

\* the batch signature s is resolved in: pages of LIMIT signatures, cut
\* into batches of BATCH_SIZE, numbered through the history
BatchOf(s) ==
    ((s - 1) \div LIMIT) * LIMIT + (((s - 1) % LIMIT) \div BATCH_SIZE)

\* the transaction resolutions never go back to a batch left behind: a call
\* is for a signature of the batch of the call before it or of a later one
NeverRequestedAgain ==
    \A x \in 1..(Len(txReqs) - 1) : BatchOf(txReqs[x]) <= BatchOf(txReqs[x + 1])

\* the batch of signature s was left without success: one of its signatures
\* was requested and never decoded
LeftWithoutSuccess(s) ==
    \E t \in 1..histLen :
        BatchOf(t) = BatchOf(s) /\ Requested(t) /\ t \notin processed

\* C29: (both fetchers) the run moves past a batch that was skipped or given
\* up: its signatures are not requested again, and when the run has ended
\* the result holds no event of any signature of such a batch.
C29_FailedBatchLost ==
    /\ NeverRequestedAgain
    /\ Done => \A s \in 1..histLen :
                  LeftWithoutSuccess(s) => EventsOfSig(result.events, s) = 0

\* what holds of TradeFetcher.ts, and of TradeFetcher-sdk.ts as far as the
\* requests go
FailedBatchLostManual ==
    /\ NeverRequestedAgain
    /\ (impl = "manual" /\ Done)
          => \A s \in 1..histLen :
                LeftWithoutSuccess(s) => EventsOfSig(result.events, s) = 0
    /\ (impl = "manual" /\ pc = "loop" /\ signatures # <<>> /\ NoPageFailure)
          => lastSignature = NextCursor(signatures)

DecodedHistory == parsedHistory # NotParsed

\* the kind of record parseLog of decode-history.ts returned
KindHistory == IF parsedHistory = NoEvent THEN "NONE" ELSE parsedHistory.action

\* C30: parseLog of utils/decode-history.ts and parseLog of TradeFetcher.ts
\* decode alike: for every payload the one returns a TRADE or FEE record
\* exactly when the other returns an event of that kind, and then both give
\* the same timestamp and, for a trade, the same side (LONG for Bid, SHORT
\* for Ask).
C30_SameDecoding ==
    (DecodedManual /\ DecodedHistory)
        => /\ KindHistory = parsedManual.type
           /\ parsedManual # NoEvent
                 => /\ parsedHistory.timestamp = parsedManual.timestamp
                    /\ parsedManual.type = "TRADE"
                          => (parsedHistory.side = "LONG"
                                 <=> parsedManual.orderSide = "Bid")

\* how far the two agree: on fees, and on what the fetcher emits; the
\* utility also returns a TRADE record where the fetcher skips (a tag that
\* is no fill, a base amount of 0, a unit price outside the band)
SameDecodingOfEmitted ==
    (DecodedManual /\ DecodedHistory)
        => /\ (parsedManual.type = "FEE" <=> KindHistory = "FEE")
           /\ parsedManual # NoEvent
                 => /\ KindHistory = parsedManual.type
                    /\ parsedHistory.timestamp = parsedManual.timestamp
                    /\ parsedManual.type = "TRADE"
                          => /\ parsedHistory.side
                                  = (IF parsedManual.orderSide = "Bid"
                                     THEN "LONG" ELSE "SHORT")
                             /\ parsedHistory.price = parsedManual.price
           /\ (parsedManual = NoEvent /\ KindHistory = "TRADE")
                 => \/ input.tag \notin FillTags
                    \/ input.rawSize = 0
                    \/ ~InBand(input)
           /\ KindHistory = "NONE"
                 <=> (input.len < MIN_LENGTH
                        \/ (input.tag # FEE_TAG /\ input.len < TRADE_MIN_LENGTH))

=============================================================================
